---- MODULE Spec2Model ----
(***************************************************************************)
(* The dialogue loop of the HVAC booking agent (cli.py):                   *)
(* start_booking_process, run_prompt_chain and the three oracle-backed     *)
(* helpers extract_booking_information, validate_booking_information and   *)
(* generate_followup_question, followed by confirmation, summary and the   *)
(* append to booking_records.jsonl.                                        *)
(*                                                                         *)
(* The language model is an external service: every reply it can give is   *)
(* a nondeterministic choice from a small family of replies.               *)
(***************************************************************************)
EXTENDS Integers, Sequences, FiniteSets, TLC

VARIABLES
    pc,                    \* position in start_booking_process / run_prompt_chain
    iteration,             \* run_prompt_chain: iteration
    conversation_history,  \* run_prompt_chain: conversation_history
    current_booking_data,  \* run_prompt_chain: current_booking_data
    cycle_start_data,      \* current_booking_data as it was when the cycle began
    followup_question,     \* run_prompt_chain: followup_question
    exit,                  \* which return/break statement ended run_prompt_chain
    booking_data,          \* start_booking_process: booking_data (the returned value)
    cap_announced,         \* "Maximum iterations reached" was printed
    confirmed,             \* answer to Confirm.ask, "unasked" before it
    log,                   \* the lines of booking_records.jsonl
    cancel_typed,          \* the user has typed a cancellation token
    cycle_fault,           \* which oracle call of the current cycle faulted
    fault_streak,          \* consecutive cycles, up to now, with a faulted call
    validation_result,     \* run_prompt_chain: validation_result, until its last use
    conversation_content,  \* extract_booking_information: conversation_content
    console,               \* the last message start_booking_process printed
    call                   \* one call of LLMClient._chat_completion, attempt by attempt

vars == << pc, iteration, conversation_history, current_booking_data,
           cycle_start_data, followup_question, exit,
           booking_data, cap_announced, confirmed, log, cancel_typed,
           cycle_fault, fault_streak, validation_result, conversation_content,
           console, call >>

----------------------------------------------------------------------------
(* Program constants *)

\* cli.py:123  max_iterations = 10
max_iterations == 10

\* llm_client.py:57  stop_after_attempt(3)
stop_after_attempt == 3

(* Bounds of the model *)

\* lines already in booking_records.jsonl when the process starts
MaxPriorLines == 1

----------------------------------------------------------------------------
(* JSON values.  A value is a tagged sequence: <<"null">>, <<"str", s>>,   *)
(* <<"list", e1, ...>>, <<"num", text>>.                                   *)

Null      == << "null" >>
EmptyStr  == << "str", "" >>
EmptyList == << "list" >>
Str(s)    == << "str", s >>
List1(e)  == << "list", e >>
Num(n)    == << "num", n >>      \* n is the decimal text of the number


\* prompt.py:23-27 and schema.py:20-45: the fields by priority tier
CRITICAL == { "service_type", "problem_summary", "contact_name", "contact_phone" }
HIGH     == { "property_type", "address", "city", "province" }
MEDIUM   == { "preferred_timeslots", "severity" }
LOW      == { "equipment_brand", "access_notes", "constraints" }

EmptyDict == [ k \in {} |-> Null ]

\* an Optional[Dict]: Python None, or a dict
None    == [ is_none |-> TRUE, dict |-> EmptyDict ]
Some(d) == [ is_none |-> FALSE, dict |-> d ]

\* a dict literal from a set of <<key, value>> pairs
Dict(pairs) ==
    [ k \in { p[1] : p \in pairs } |-> (CHOOSE p \in pairs : p[1] = k)[2] ]

----------------------------------------------------------------------------
(* The oracle.  One call of LLMClient._chat_completion is decided by what  *)
(* the service does: `failures` attempts in a row end in a builtin         *)
(* ConnectionError/TimeoutError, and the attempt after them ends as        *)
(* `final`: a response text, or an exception of another class.             *)

\* the texts a response can be, by what json.loads makes of them
Reply(type, booking, is_complete, missing_fields, text) ==
    [ type |-> type, booking |-> booking, is_complete |-> is_complete,
      missing_fields |-> missing_fields, text |-> text ]

ApiError == Reply("api_error", EmptyDict, Null, << >>, << >>)
Invalid == Reply("invalid", EmptyDict, Null, << >>, << >>)
Array   == Reply("array", EmptyDict, Null, << >>, << >>)
ObjectNoBooking   == Reply("no_booking", EmptyDict, Null, << >>, << >>)
ObjectNullBooking == Reply("null_booking", EmptyDict, Null, << >>, << >>)
\* an object with a "booking" object b and a "summary" t
ObjectBooking(b, t) == Reply("object", b, Null, << >>, t)
\* a validation object; c is the JSON value under "is_complete" (Null if the key
\* is absent), m the list under "missing_fields"
ObjectValidation(c, m) == Reply("object", EmptyDict, c, m, << >>)
\* a plain text, as a sequence of words and white space
Text(t) == Reply("text", EmptyDict, Null, << >>, t)

Script(n, f) == [ failures |-> n, final |-> f ]

Scripts(finals) ==
    { Script(n, f) : n \in 0 .. (stop_after_attempt - 1), f \in finals \cup { ApiError } }
    \cup { Script(stop_after_attempt, ApiError) }

\* tenacity: another attempt follows a ConnectionError/TimeoutError while
\* fewer than stop_after_attempt attempts were made
Attempts(script) ==
    IF script.failures < stop_after_attempt THEN script.failures + 1
    ELSE stop_after_attempt

\* LLMClient._chat_completion raises: the attempts are used up (RetryError), or
\* an exception that is no ConnectionError/TimeoutError is re-raised at once
Raised(script) ==
    \/ script.failures >= stop_after_attempt
    \/ script.final.type = "api_error"

\* LLMClient._chat_completion: the content returned when the call does not raise
ChatCompletion(script) == script.final

----------------------------------------------------------------------------
(* extract_booking_information *)

\* a filter that drops None alone
IsNotNone(value) == value # Null

\* cli.py:213  value is not None and value != "" and value != []
IsNonEmpty(value) ==
    /\ value # Null
    /\ value # EmptyStr
    /\ value # EmptyList

\* cli.py:211-216  the non-empty entries of the reply's booking
NonEmptyItems(booking) ==
    [ key \in { k \in DOMAIN booking : IsNonEmpty(booking[k]) } |-> booking[key] ]

\* the call or the parse raised: json.loads on a text that is no JSON, .get on an
\* array, .items() on a null booking
ExtractionFaulted(script) ==
    \/ Raised(script)
    \/ ChatCompletion(script).type \in { "invalid", "array", "null_booking", "text" }

\* cli.py:183-220  the dict of non-empty fields, None on any exception
extract_booking_information(script) ==
    IF ExtractionFaulted(script) THEN None
    ELSE Some(NonEmptyItems(ChatCompletion(script).booking))

\* Python truth of an Optional[Dict]: None and {} are false
Falsy(d) == d.is_none \/ DOMAIN d.dict = {}

\* an assignment in place of the update: the extraction replaces the data
Replaced(data, extracted) == extracted

\* an update that extends a list already known instead of overwriting it
Extended(data, extracted) ==
    [ key \in DOMAIN data \cup DOMAIN extracted |->
        IF key \notin DOMAIN extracted THEN data[key]
        ELSE IF key \in DOMAIN data /\ Head(data[key]) = "list"
                /\ Head(extracted[key]) = "list"
        THEN data[key] \o Tail(extracted[key])
        ELSE extracted[key] ]

\* cli.py:140  dict.update
Update(data, extracted) ==
    [ key \in DOMAIN data \cup DOMAIN extracted |->
        IF key \in DOMAIN extracted THEN extracted[key] ELSE data[key] ]

----------------------------------------------------------------------------
(* validate_booking_information *)

True  == << "bool", "true" >>
False == << "bool", "false" >>

\* Python truth of a JSON value
Truthy(value) == value \notin { Null, False, EmptyStr, EmptyList, Num("0") }

\* cli.py:246-248  the call raised, or json.loads did
ValidationFaulted(script) ==
    \/ Raised(script)
    \/ ChatCompletion(script).type \in { "invalid", "text" }

\* cli.py:223-248  the parsed reply, whatever JSON value it is; on an exception
\* {"is_complete": False, "missing_fields": [], "questions": []}
validate_booking_information(script) ==
    IF ValidationFaulted(script) THEN ObjectValidation(False, << >>)
    ELSE ChatCompletion(script)

\* validation_result before cli.py:143 and after its last use at cli.py:153
NoResult == Reply("none", EmptyDict, Null, << >>, << >>)

\* cli.py:147  validation_result.get raises AttributeError when the reply parsed
\* to a JSON value that is no object
GetRaises(result) == result.type # "object"

\* cli.py:147  validation_result.get("is_complete", False)
IsComplete(result) == Truthy(result.is_complete)

----------------------------------------------------------------------------
(* generate_followup_question *)

WhiteSpace == { " ", "\n" }

RECURSIVE LStrip(_)
LStrip(t) ==
    IF t = << >> THEN t
    ELSE IF Head(t) \in WhiteSpace THEN LStrip(Tail(t))
    ELSE t

RECURSIVE RStrip(_)
RStrip(t) ==
    IF t = << >> THEN t
    ELSE IF t[Len(t)] \in WhiteSpace THEN RStrip(SubSeq(t, 1, Len(t) - 1))
    ELSE t

\* str.strip
Strip(t) == RStrip(LStrip(t))

\* cli.py:251-275  the stripped reply; None on an exception, which line 156
\* treats like the empty string
generate_followup_question(script) ==
    IF Raised(script) THEN << >>
    ELSE Strip(ChatCompletion(script).text)

----------------------------------------------------------------------------
(* The user's input: a string is the sequence of its characters *)

UpperCase == << "A", "B", "C", "D", "E", "F", "G", "H", "I", "J", "K", "L", "M",
                "N", "O", "P", "Q", "R", "S", "T", "U", "V", "W", "X", "Y", "Z" >>
LowerCase == << "a", "b", "c", "d", "e", "f", "g", "h", "i", "j", "k", "l", "m",
                "n", "o", "p", "q", "r", "s", "t", "u", "v", "w", "x", "y", "z" >>

LowerChar(c) ==
    IF \E i \in DOMAIN UpperCase : UpperCase[i] = c
    THEN LowerCase[CHOOSE i \in DOMAIN UpperCase : UpperCase[i] = c]
    ELSE c

\* str.lower
Lower(u) == [ i \in DOMAIN u |-> LowerChar(u[i]) ]

\* cli.py:164  ["quit", "exit", "cancel"]
CancelTokens == { << "q", "u", "i", "t" >>, << "e", "x", "i", "t" >>,
                  << "c", "a", "n", "c", "e", "l" >> }

\* cli.py:164  user_response.lower() in ["quit", "exit", "cancel"]
IsCancel(user_response) == Lower(user_response) \in CancelTokens

\* cli.py:169  f"Q: {followup_question}\nA: {user_response}"
Turn(question, user_response) ==
    << "Q: " >> \o question \o << "\nA: " >> \o user_response

\* a cap test that is off by one
CapExceeded(i) == i > max_iterations

\* a window on the history: the last turn alone
LastTurnOnly(history) == << history[Len(history)] >>

\* cli.py:133  the history handed to extract_booking_information: all of it
HistoryPassed(history) == history

\* cli.py:190-192  "\n".join(f"Turn {i + 1}: {turn}" ...): one numbered line per turn
ConversationContent(history) ==
    [ i \in DOMAIN history |-> [ turn |-> i, text |-> history[i] ] ]

\* a confirmation whose answer is not looked at
AlwaysSummary(answer) == "summary"

\* cli.py:98-102  the summary after a confirmation, the end after a refusal
AfterConfirm(answer) == IF answer THEN "summary" ELSE "end"

\* cli.py:175  iteration >= max_iterations
CapReached(i) == i >= max_iterations

\* cli.py:126  iteration < max_iterations
LoopContinues(i) == i < max_iterations

----------------------------------------------------------------------------
(* generate_booking_summary, LLMClient.process_conversation, save_booking_record *)

\* schema.py:21-28  the Literal of BookingIntent.service_type
ServiceTypes == { "ac_repair", "furnace_maintenance", "installation", "cleaning",
                  "ventilation_maintenance", "other" }

\* schema.py:20-45  BookingIntent(**booking) validates: service_type is required
ValidIntent(booking) ==
    /\ "service_type" \in DOMAIN booking
    /\ booking["service_type"] \in { Str(t) : t \in ServiceTypes }

\* llm_client.py:127-155  process_conversation raises: the call raised, or the
\* reply parsed but is no object with a valid booking.  A reply that is no JSON is
\* answered with the error AgentOutput instead (llm_client.py:143-151).
SummaryRaises(script) ==
    \/ Raised(script)
    \/ ChatCompletion(script).type \in { "array", "no_booking", "null_booking" }
    \/ /\ ChatCompletion(script).type = "object"
       /\ ~ValidIntent(ChatCompletion(script).booking)

\* llm_client.py:136-151  AgentOutput.summary
SummaryText(script) ==
    IF ChatCompletion(script).type \in { "invalid", "text" }
    THEN << "Error: Failed to parse API response" >>
    ELSE ChatCompletion(script).text

\* cli.py:526-530  the record appended to booking_records.jsonl
Record(data, summary) ==
    [ booking_data |-> data, ai_summary |-> summary, timestamp |-> "now" ]

----------------------------------------------------------------------------
(* The replies and inputs the model draws from *)

B_service == Dict({ << "service_type", Str("ac_repair") >>,
                    << "problem_summary", Str("not cooling") >>,
                    << "contact_name", Null >>,
                    << "contact_phone", EmptyStr >>,
                    << "constraints", EmptyList >>,
                    << "confidence", Num("0.0") >> })
B_contact == Dict({ << "service_type", Null >>,
                    << "contact_name", Str("Sam") >>,
                    << "contact_phone", Str("555-0100") >> })
B_site    == Dict({ << "property_type", Str("apartment") >>,
                    << "address", Str("123 Main St") >>,
                    << "city", Str("Toronto") >>,
                    << "province", Str("ON") >> })
B_when    == Dict({ << "severity", Str("high") >>,
                    << "preferred_timeslots", List1("Tomorrow morning") >>,
                    << "problem_summary", EmptyStr >> })
B_other   == Dict({ << "service_type", Str("other") >>,
                    << "preferred_timeslots", EmptyList >> })
B_nothing == Dict({ << "service_type", Null >>,
                    << "problem_summary", EmptyStr >>,
                    << "preferred_timeslots", EmptyList >> })

Bookings == { B_service, B_contact, B_site, B_when, B_other, B_nothing }

ExtractionScripts ==
    Scripts({ Invalid, Array, ObjectNoBooking, ObjectNullBooking }
            \cup { ObjectBooking(b, << >>) : b \in Bookings })

ValidationScripts ==
    Scripts({ Invalid, Array,
              ObjectValidation(True, << >>),
              ObjectValidation(False, << "contact_phone" >>),
              ObjectValidation(Null, << "address" >>) })

\* prompt.py:164-165  the example question for a missing property type
Q_property == << "What type of property is this?" >>

FollowupScripts ==
    Scripts({ Text(Q_property), Text(<< " " >> \o Q_property \o << "\n" >>),
              Text(<< " ", "\n" >>), Text(<< >>) })

SummaryScripts ==
    Scripts({ Invalid, Array,
              ObjectBooking(B_other, << "Service booked" >>),
              ObjectBooking(B_contact, << "Service booked" >>) })

TestScripts == Scripts({ Text(<< "Hello" >>) })

FirstRequests == { << "n", "o", " ", "A", "C" >>,
                   << "C", "a", "n", "c", "e", "l" >> }

Answers == { << "o", "k" >>, << "Q", "u", "i", "t" >>, << "E", "X", "I", "T" >>,
             << "c", "a", "n", "c", "e", "l" >> }

PriorLine == [ booking_data |-> B_site, ai_summary |-> << "Earlier booking" >>,
               timestamp |-> "earlier" ]

PriorLogs == { [ i \in 1 .. n |-> PriorLine ] : n \in 0 .. MaxPriorLines }

----------------------------------------------------------------------------
\* no call of LLMClient._chat_completion is being followed
IdleCall == [ site |-> "none", outcomes |-> << >>, status |-> "idle" ]

(* The state after construction: start_booking_process has created the     *)
(* client; the log file holds the lines of earlier runs.                   *)

Init ==
    /\ pc = "test_connection"
    /\ iteration = 0
    /\ conversation_history = << >>
    /\ current_booking_data = EmptyDict
    /\ cycle_start_data = EmptyDict
    /\ followup_question = << >>
    /\ exit = "none"
    /\ booking_data = None
    /\ cap_announced = FALSE
    /\ confirmed = "unasked"
    /\ log \in PriorLogs
    /\ cancel_typed = FALSE
    /\ cycle_fault = "none"
    /\ fault_streak = 0
    /\ validation_result = NoResult
    /\ conversation_content = << >>
    /\ console = "Welcome"
    /\ call = IdleCall

\* cli.py:82-88  client.test_connection()
TestConnection ==
    /\ pc = "test_connection"
    /\ \E script \in TestScripts :
         /\ pc' = IF Raised(script) THEN "end" ELSE "prompt"
         /\ console' = IF Raised(script) THEN "API connection failed"
                       ELSE "Connected to OpenAI API"
    /\ UNCHANGED << iteration, conversation_history, current_booking_data,
                    cycle_start_data, followup_question, exit, booking_data,
                    cap_announced, confirmed, log, cancel_typed, cycle_fault,
                    fault_streak, validation_result, conversation_content, call >>

\* cli.py:114-124  the first request, the empty booking data, iteration = 0
InitialRequest ==
    /\ pc = "prompt"
    /\ \E user_request \in FirstRequests :
         /\ conversation_history' = << user_request >>
         /\ cancel_typed' = IsCancel(user_request)
    /\ current_booking_data' = EmptyDict
    /\ iteration' = 0
    /\ pc' = "loop"
    /\ UNCHANGED << cycle_start_data, followup_question, exit, booking_data,
                    cap_announced, confirmed, log, cycle_fault, fault_streak,
                    validation_result, conversation_content, console, call >>

\* cli.py:126-127  while iteration < max_iterations: iteration += 1
LoopTest ==
    /\ pc = "loop"
    /\ IF LoopContinues(iteration)
       THEN /\ iteration' = iteration + 1
            /\ cycle_start_data' = current_booking_data
            /\ cycle_fault' = "none"
            /\ pc' = "extract"
            /\ exit' = exit
       ELSE /\ pc' = "after_loop"
            /\ exit' = "exhausted"
            /\ UNCHANGED << iteration, cycle_start_data, cycle_fault >>
    /\ UNCHANGED << conversation_history, current_booking_data, followup_question,
                    booking_data, cap_announced, confirmed, log, cancel_typed,
                    fault_streak, validation_result, conversation_content,
                    console, call >>

\* cli.py:131-140  extract, return None on a failed or empty extraction, else merge
Extract ==
    /\ pc = "extract"
    /\ \E script \in ExtractionScripts :
         LET extracted_data == extract_booking_information(script) IN
         /\ IF Falsy(extracted_data)
            THEN /\ pc' = "returned"
                 /\ exit' = "extract_failed"
                 /\ booking_data' = None
                 /\ current_booking_data' = current_booking_data
            ELSE /\ current_booking_data' =
                      Update(current_booking_data, extracted_data.dict)
                 /\ pc' = "validate"
                 /\ UNCHANGED << exit, booking_data >>
         /\ cycle_fault' = IF ExtractionFaulted(script) THEN "extraction"
                           ELSE cycle_fault
         /\ fault_streak' = IF ExtractionFaulted(script) THEN fault_streak + 1
                            ELSE fault_streak
    /\ conversation_content' =
           ConversationContent(HistoryPassed(conversation_history))
    /\ UNCHANGED << iteration, conversation_history, cycle_start_data,
                    followup_question, cap_announced, confirmed, log, cancel_typed,
                    validation_result, console, call >>

\* cli.py:142-149 and 171-173  validate; break when complete; an exception of
\* validation_result.get ends the conversation
Validate ==
    /\ pc = "validate"
    /\ \E script \in ValidationScripts :
         LET result == validate_booking_information(script)
             faulted == ValidationFaulted(script) \/ GetRaises(result)
         IN
         /\ validation_result' = result
         /\ IF GetRaises(result)
            THEN /\ pc' = "returned"
                 /\ exit' = "exception"
                 /\ booking_data' = None
            ELSE IF IsComplete(result)
            THEN /\ pc' = "after_loop"
                 /\ exit' = "complete"
                 /\ booking_data' = booking_data
            ELSE /\ pc' = "followup"
                 /\ UNCHANGED << exit, booking_data >>
         /\ cycle_fault' = IF faulted THEN "validation" ELSE cycle_fault
         /\ fault_streak' = IF faulted THEN fault_streak + 1 ELSE 0
    /\ UNCHANGED << iteration, conversation_history, current_booking_data,
                    cycle_start_data, followup_question, cap_announced, confirmed,
                    log, cancel_typed, conversation_content, console, call >>

\* cli.py:151-158  the follow-up question; break when there is none
Followup ==
    /\ pc = "followup"
    /\ \E script \in FollowupScripts :
         LET question == generate_followup_question(script) IN
         IF question = << >>
         THEN /\ pc' = "after_loop"
              /\ exit' = "no_question"
              /\ followup_question' = followup_question
         ELSE /\ followup_question' = question
              /\ pc' = "ask"
              /\ exit' = exit
    /\ validation_result' = NoResult
    /\ UNCHANGED << iteration, conversation_history, current_booking_data,
                    cycle_start_data, booking_data, cap_announced, confirmed, log,
                    cancel_typed, cycle_fault, fault_streak, conversation_content,
                    console, call >>

\* cli.py:160-169  ask; return None on a cancellation token, else append the turn
Answer ==
    /\ pc = "ask"
    /\ \E user_response \in Answers :
         IF IsCancel(user_response)
         THEN /\ pc' = "returned"
              /\ exit' = "cancelled"
              /\ booking_data' = None
              /\ cancel_typed' = TRUE
              /\ conversation_history' = conversation_history
         ELSE /\ conversation_history' =
                   Append(conversation_history, Turn(followup_question, user_response))
              /\ pc' = "loop"
              /\ UNCHANGED << exit, booking_data, cancel_typed >>
    /\ UNCHANGED << iteration, current_booking_data, cycle_start_data,
                    followup_question, cap_announced, confirmed, log, cycle_fault,
                    fault_streak, validation_result, conversation_content,
                    console, call >>

\* cli.py:175-180  the message of the iteration cap, return current_booking_data
AfterLoop ==
    /\ pc = "after_loop"
    /\ cap_announced' = CapReached(iteration)
    /\ booking_data' = Some(current_booking_data)
    /\ pc' = "returned"
    /\ UNCHANGED << iteration, conversation_history, current_booking_data,
                    cycle_start_data, followup_question, exit, confirmed, log,
                    cancel_typed, cycle_fault, fault_streak, validation_result,
                    conversation_content, console, call >>

\* cli.py:91-95  if not booking_data: "Booking cancelled"
CheckBooking ==
    /\ pc = "returned"
    /\ pc' = IF Falsy(booking_data) THEN "end" ELSE "confirm"
    /\ console' = IF Falsy(booking_data) THEN "Booking cancelled" ELSE console
    /\ UNCHANGED << iteration, conversation_history, current_booking_data,
                    cycle_start_data, followup_question, exit, booking_data,
                    cap_announced, confirmed, log, cancel_typed, cycle_fault,
                    fault_streak, validation_result, conversation_content, call >>

\* cli.py:97-102 and 278-389  confirm_booking_information
Confirm ==
    /\ pc = "confirm"
    /\ \E answer \in BOOLEAN :
         /\ confirmed' = IF answer THEN "yes" ELSE "no"
         /\ pc' = AfterConfirm(answer)
         /\ console' = IF AfterConfirm(answer) = "end" THEN "Booking cancelled"
                       ELSE console
    /\ UNCHANGED << iteration, conversation_history, current_booking_data,
                    cycle_start_data, followup_question, exit, booking_data,
                    cap_announced, log, cancel_typed, cycle_fault, fault_streak,
                    validation_result, conversation_content, call >>

\* cli.py:392-468 and 521-540  the summary, then the append to the log; the
\* append is skipped when the summary raised, and may itself fail (caught)
Summary ==
    /\ pc = "summary"
    /\ \E script \in SummaryScripts, written \in BOOLEAN :
         /\ log' = IF ~SummaryRaises(script) /\ written
                   THEN Append(log, Record(booking_data.dict, SummaryText(script)))
                   ELSE log
         /\ console' = IF SummaryRaises(script) THEN "Failed to generate summary"
                       ELSE IF written THEN "Booking record saved"
                       ELSE "Failed to save record"
    /\ pc' = "end"
    /\ UNCHANGED << iteration, conversation_history, current_booking_data,
                    cycle_start_data, followup_question, exit, booking_data,
                    cap_announced, confirmed, cancel_typed, cycle_fault,
                    fault_streak, validation_result, conversation_content, call >>

Next ==
    \/ TestConnection
    \/ InitialRequest
    \/ LoopTest
    \/ Extract
    \/ Validate
    \/ Followup
    \/ Answer
    \/ AfterLoop
    \/ CheckBooking
    \/ Confirm
    \/ Summary

Spec == Init /\ [][Next]_vars

----------------------------------------------------------------------------
(* The Controller's terminal states, read off the statement that ended     *)
(* run_prompt_chain.                                                       *)

\* run_prompt_chain returned None (cli.py:137, 166, 173)
Aborted == exit \in { "extract_failed", "exception", "cancelled" }

\* run_prompt_chain left the loop and returned the booking data (cli.py:149, 158, 126)
Done == exit \in { "complete", "no_question", "exhausted" }

\* the value of run_prompt_chain has been computed
Returned == pc \in { "returned", "confirm", "summary", "end" } /\ exit # "none"

\* the terminal status, from the returned value and the message of cli.py:175-178
TerminalStatus ==
    IF booking_data.is_none THEN "aborted_by_user"
    ELSE IF cap_announced THEN "completed_via_iteration_cap"
    ELSE "completed"

----------------------------------------------------------------------------
(* Claims *)

\* C1: the Controller is in a terminal state within 10 asking-cycles or 3
\* consecutive faulted cycles, whichever comes first: no cycle begins after the
\* 10th, and none begins after three consecutive cycles with a faulted oracle call.
C1_TerminatesWithinCaps ==
    /\ iteration <= max_iterations
    /\ pc \in { "loop", "extract" } => fault_streak < 3

\* C2: once the user has typed "quit", "exit" or "cancel" (in any case), at the
\* first prompt or as an answer, the Controller is ABORTED at once, no booking
\* data is returned and no line is added to the log.
C2_CancelAborts ==
    cancel_typed =>
        /\ exit = "cancelled"
        /\ pc \in { "returned", "end" }
        /\ booking_data = None
        /\ log \in PriorLogs

\* C3: a cycle whose extraction or completeness call faulted is a no-op: the
\* booking data is what it was when the cycle began, and the fault does not
\* end the conversation.
C3_FaultedCycleIsNoOp ==
    cycle_fault # "none" =>
        /\ current_booking_data = cycle_start_data
        /\ exit \notin { "extract_failed", "exception" }

\* C4: a fault aborts the conversation exactly when it is the third consecutive
\* faulted cycle: an abort by a fault has three consecutive faulted cycles behind
\* it, and three consecutive faulted cycles always abort.
C4_AbortExactlyAtThreeFaults ==
    /\ (cycle_fault # "none" /\ exit \in { "extract_failed", "exception" })
           => fault_streak >= 3
    /\ fault_streak >= 3 => Aborted

\* C5: when the loop ends because 10 cycles went by without is_complete, the
\* cap is announced (status completed_via_iteration_cap), the value returned is
\* the non-empty booking data accumulated so far, and it goes to confirmation.
C5_CapHandsPartialState ==
    (Returned /\ exit = "exhausted") =>
        /\ iteration = max_iterations
        /\ TerminalStatus = "completed_via_iteration_cap"
        /\ booking_data = Some(current_booking_data)
        /\ DOMAIN booking_data.dict # {}
        /\ pc \in { "summary", "end" } => confirmed # "unasked"

C5_Witness ==
    /\ pc = "confirm"
    /\ exit = "exhausted"
    /\ Len(conversation_history) = max_iterations + 1
    /\ \E f \in CRITICAL : f \notin DOMAIN booking_data.dict
    /\ "problem_summary" \in DOMAIN booking_data.dict

\* C6: no step removes a field from the booking data, whatever was extracted.
C6_MergeMonotonic ==
    [][DOMAIN current_booking_data \subseteq DOMAIN current_booking_data']_vars

\* this cycle merged the reply B_contact, whose service_type is null, into data
\* that held a service_type, and the service_type is still there
C6_Witness ==
    /\ pc = "validate"
    /\ "contact_name" \in DOMAIN current_booking_data
    /\ "contact_name" \notin DOMAIN cycle_start_data
    /\ "service_type" \in DOMAIN cycle_start_data
    /\ "service_type" \in DOMAIN current_booking_data

\* C7: merging the same extraction a second time changes nothing:
\* merge(merge(s,c),c) = merge(s,c) for the booking data s of every reachable
\* state and every extraction c.
C7_MergeIdempotent ==
    \A b \in Bookings :
        LET c == NonEmptyItems(b) IN
        Update(Update(current_booking_data, c), c) = Update(current_booking_data, c)

\* this cycle's merge of a list-valued extraction changed the booking data, and
\* merging the same extraction again would not
C7_Witness ==
    /\ pc = "validate"
    /\ current_booking_data # cycle_start_data
    /\ current_booking_data = Update(cycle_start_data, NonEmptyItems(B_when))
    /\ Update(current_booking_data, NonEmptyItems(B_when)) = current_booking_data

\* C8: the booking data never maps a field to null, "" or [].
C8_NoEmptyValues ==
    \A key \in DOMAIN current_booking_data :
        current_booking_data[key] \notin { Null, EmptyStr, EmptyList }

\* this cycle merged the reply B_service, which carries a null, a "" and a []
C8_Witness ==
    /\ pc = "validate"
    /\ "confidence" \in DOMAIN current_booking_data
    /\ "confidence" \notin DOMAIN cycle_start_data
    /\ DOMAIN current_booking_data \cap { "contact_name", "contact_phone", "constraints" } = {}

\* C9: when the loop ends on is_complete, the booking data holds every CRITICAL
\* field, every HIGH field, and severity or preferred_timeslots.
C9_CompleteImpliesTiers ==
    exit = "complete" =>
        /\ CRITICAL \cup HIGH \subseteq DOMAIN current_booking_data
        /\ MEDIUM \cap DOMAIN current_booking_data # {}

\* the field a question asks for
QuestionTarget(question) ==
    IF question = Q_property THEN "property_type" ELSE "none"

\* C10: the question put to the user never asks for a HIGH field while a
\* CRITICAL field is missing from the booking data.
C10_TierOrder ==
    pc = "ask" =>
        ~ /\ QuestionTarget(followup_question) \in HIGH
          /\ ~(CRITICAL \subseteq DOMAIN current_booking_data)

\* C11: when the completeness call fails or its reply is not a well-formed
\* object, validate_booking_information returns is_complete = false with an empty
\* missing_fields list, no exception ends the conversation, and the loop goes on
\* to the follow-up question of that cycle.
C11_CheckerDegrades ==
    cycle_fault = "validation" =>
        /\ exit # "exception"
        /\ validation_result # NoResult =>
               /\ validation_result = ObjectValidation(False, << >>)
               /\ pc = "followup"

\* C12: a refused confirmation ends the run with "Booking cancelled" and writes
\* nothing; a line is in the log only after the user has confirmed.
C12_DeclineNotPersisted ==
    /\ confirmed = "no" =>
           /\ pc = "end"
           /\ console = "Booking cancelled"
           /\ log \in PriorLogs
    /\ log \notin PriorLogs => confirmed = "yes"

C12_Witness ==
    /\ confirmed = "no"
    /\ pc = "end"
    /\ exit = "complete"
    /\ ~booking_data.is_none

\* C13: no step changes or removes a line of the log, and the step that follows
\* the user's confirmation of a completed conversation appends exactly one line,
\* whether or not the summary call faults (a failed write of the file apart).
C13_OneLinePerConfirmed ==
    [][ /\ Len(log') >= Len(log)
        /\ SubSeq(log', 1, Len(log)) = log
        /\ (pc = "summary" /\ pc' = "end" /\ console' # "Failed to save record")
               => Len(log') = Len(log) + 1 ]_vars

\* C15: the turn history only grows, its entries never change, and each
\* extraction call is sent every turn of the history as it then stands.
C15_HistoryAppendOnly ==
    [][ /\ Len(conversation_history') >= Len(conversation_history)
        /\ SubSeq(conversation_history', 1, Len(conversation_history))
               = conversation_history
        /\ pc = "extract" =>
               /\ Len(conversation_content') = Len(conversation_history)
               /\ \A i \in DOMAIN conversation_history :
                      /\ conversation_content'[i].turn = i
                      /\ conversation_content'[i].text = conversation_history[i] ]_vars

\* an extraction call has just been sent a history of three turns
C15_Witness ==
    /\ pc = "validate"
    /\ Len(conversation_history) = 3
    /\ Len(conversation_content) = 3
    /\ conversation_content[3].text = conversation_history[3]

\* C16: when run_prompt_chain returns booking data, every turn of the history
\* has been sent to an extraction call: the last extraction saw the whole history.
C16_AllAnswersExtracted ==
    (Returned /\ ~booking_data.is_none) =>
        /\ Len(conversation_content) = Len(conversation_history)
        /\ \A i \in DOMAIN conversation_history :
               conversation_content[i].text = conversation_history[i]

\* C17: the conversation ends with "Failed to extract booking information" only
\* when the extraction call faulted; an extraction that succeeds with no
\* non-empty field does not end it.
C17_EmptyExtractionContinues ==
    exit = "extract_failed" => cycle_fault = "extraction"

\* C18: the cap is announced only when the loop used up its 10 cycles without
\* is_complete; a conversation that ended on is_complete is reported completed.
C18_CapOnlyWhenExhausted ==
    Returned =>
        /\ cap_announced => exit = "exhausted"
        /\ exit = "complete" => TerminalStatus = "completed"

----------------------------------------------------------------------------
(* One call of LLMClient._chat_completion, attempt by attempt, and what its *)
(* caller does with the outcome.  The loop above takes such a call in one    *)
(* step, as a Script; here the retry decorator is followed on its own.       *)

loop_vars == << pc, iteration, conversation_history, current_booking_data,
                cycle_start_data, followup_question, exit, booking_data,
                cap_announced, confirmed, log, cancel_typed, cycle_fault,
                fault_streak, validation_result, conversation_content, console >>

\* the callers of _chat_completion: llm_client.py:169, cli.py:200, 237, 269,
\* llm_client.py:129
Sites == { "test_connection", "extract", "validate", "followup", "summary" }

\* cli.py:205, 242 and llm_client.py:133  the callers that json.loads the content
ParsingSites == { "extract", "validate", "summary" }

\* how one attempt can end: a builtin ConnectionError or TimeoutError, an
\* exception of another class, a content that is JSON, a content that is not
Outcomes == { "ConnectionError", "TimeoutError", "APIError", "json", "malformed" }

Exceptions == { "ConnectionError", "TimeoutError", "APIError" }

\* a decorator that retries whatever is no usable answer
RetryAll(outcome) == outcome # "json"

\* llm_client.py:59  retry_if_exception_type((ConnectionError, TimeoutError))
Retryable(outcome) == outcome \in { "ConnectionError", "TimeoutError" }

\* llm_client.py:56-60  after an attempt: again, RetryError, the exception, or the content
AfterAttempt(outcomes) ==
    LET outcome == outcomes[Len(outcomes)] IN
    IF Retryable(outcome)
    THEN IF Len(outcomes) < stop_after_attempt THEN "calling" ELSE "raised"
    ELSE IF outcome \in Exceptions THEN "raised"
    ELSE "returned"

InitCall ==
    /\ pc = "test_connection"
    /\ iteration = 0
    /\ conversation_history = << >>
    /\ current_booking_data = EmptyDict
    /\ cycle_start_data = EmptyDict
    /\ followup_question = << >>
    /\ exit = "none"
    /\ booking_data = None
    /\ cap_announced = FALSE
    /\ confirmed = "unasked"
    /\ log \in PriorLogs
    /\ cancel_typed = FALSE
    /\ cycle_fault = "none"
    /\ fault_streak = 0
    /\ validation_result = NoResult
    /\ conversation_content = << >>
    /\ console = "Welcome"
    /\ call \in { [ site |-> s, outcomes |-> << >>, status |-> "calling" ] : s \in Sites }

\* llm_client.py:78-94  one attempt, and the decorator's decision after it
Attempt ==
    /\ call.status = "calling"
    /\ \E outcome \in Outcomes :
         LET outcomes == Append(call.outcomes, outcome) IN
         call' = [ call EXCEPT !.outcomes = outcomes,
                               !.status = AfterAttempt(outcomes) ]
    /\ UNCHANGED loop_vars

\* cli.py:205, 242, 271 and llm_client.py:133, 143-151  the caller uses the
\* content; a content that does not parse is a fault the caller handles itself
UseContent ==
    /\ call.status = "returned"
    /\ call' = [ call EXCEPT !.status =
                   IF /\ call.site \in ParsingSites
                      /\ call.outcomes[Len(call.outcomes)] = "malformed"
                   THEN "fault_handled" ELSE "used" ]
    /\ UNCHANGED loop_vars

\* cli.py:218-220, 246-248, 273-275, 467-468 and llm_client.py:173-175  the
\* caller catches what _chat_completion raised
CatchFault ==
    /\ call.status = "raised"
    /\ call' = [ call EXCEPT !.status = "fault_handled" ]
    /\ UNCHANGED loop_vars

NextCall ==
    \/ Attempt
    \/ UseContent
    \/ CatchFault

SpecCall == InitCall /\ [][NextCall]_vars

\* the Script the loop would use for a call that has ended
AsScript(c) ==
    LET n == Cardinality({ i \in DOMAIN c.outcomes : Retryable(c.outcomes[i]) })
        last == c.outcomes[Len(c.outcomes)]
    IN Script(n, IF last = "json" THEN ObjectNoBooking
                 ELSE IF last = "malformed" THEN Invalid
                 ELSE ApiError)

\* a call that has ended raised exactly when its Script says so, after as many
\* attempts as its Script says
CallMatchesScript ==
    call.status \in { "raised", "returned" } =>
        /\ (call.status = "raised") <=> Raised(AsScript(call))
        /\ Len(call.outcomes) = Attempts(AsScript(call))

\* C14: a call makes at most 3 attempts, an attempt is followed by another only
\* when it ended in a ConnectionError or TimeoutError, and a content that arrived
\* but does not parse is handled by the caller with no further attempt.
C14_RetryOnlyTransport ==
    /\ Len(call.outcomes) <= stop_after_attempt
    /\ \A i \in 1 .. (Len(call.outcomes) - 1) :
           call.outcomes[i] \in { "ConnectionError", "TimeoutError" }
    /\ (call.outcomes # << >> /\ call.outcomes[Len(call.outcomes)] = "malformed")
           => call.status \in { "returned", "fault_handled", "used" }

\* a third attempt, after two transport faults, brought a content that does not
\* parse, and the caller handled it
C14_Witness ==
    /\ call.site = "extract"
    /\ call.outcomes = << "ConnectionError", "TimeoutError", "malformed" >>
    /\ call.status = "fault_handled"

====
